---- MODULE Spec2Model ----
(***************************************************************************)
(* Model of the QRBS example of the Quantum Factory Method repository:     *)
(* the inference tree (examples/inferential_circuit.py), the two circuit   *)
(* builders QiskitPlatform and CirqPlatform and their executors            *)
(* (examples/qrbs.py).                                                     *)
(*                                                                         *)
(* A certainty is kept in hundredths: 0, 50, 100 stand for the             *)
(* certainties 0.0, 0.5 and 1.0, the three values for which the squared    *)
(* entries of the M gate, cos^2(c*pi/2) and sin^2(c*pi/2), are the         *)
(* rationals 1, 1/2, 0 and 0, 1/2, 1; for these, squared amplitudes are    *)
(* kept in quarter units.  For any other certainty the squared entries are *)
(* irrational; the model then keeps which entries are zero, which decides  *)
(* the basis states a run can give, and computes no probability.           *)
(***************************************************************************)
EXTENDS Integers, Sequences, FiniteSets, TLC

\* Bounds of the model.  MaxNodes: the nodes of a tree that is built and
\* executed (Spec); MaxBuildNodes: of a tree that is only built (SpecBuild);
\* MaxBuilds: the builds of one tree; MaxRunNodes: the nodes of a tree whose
\* tags may repeat and whose fragment is executed (SpecRun); MaxExecutes:
\* the executions of one fragment; MaxOrderWidth: the qubits of a circuit
\* executed on Cirq; MaxMergeNodes, MaxMergeDepth: the nodes and the depth
\* of a tree both of whose children may be operators (SpecMerge);
\* MaxSplitStates: the basis states of the state vector of a circuit that
\* is executed; MaxSplitWidth, MaxSplitOrderWidth: the qubits of a circuit
\* with more than one basis state executed on Qiskit and on Cirq;
\* MaxRunOrderWidth: the qubits of a circuit executed once more on Cirq.
\* Within these bounds every run and every order of the measured qubits is
\* a step of the model.
MaxNodes == 4
MaxBuildNodes == 5
MaxBuilds == 2
MaxRunNodes == 4
MaxExecutes == 2
MaxOrderWidth == 5
MaxMergeNodes == 7
MaxMergeDepth == 3
MaxSplitStates == 2
MaxSplitWidth == 5
MaxSplitOrderWidth == 3
MaxRunOrderWidth == 3

\* The tags and certainties the caller draws the nodes from.  Tags are opaque
\* to the builders (they are only compared), so the caller names a tree's
\* tags in the order it introduces them: the k-th new tag is TagNames[k].
TagNames == <<"A", "B", "C", "D", "E", "F", "G", "H", "I">>
Certainties == {0, 50, 100}
BuildCertainties == {50}
RunCertainties == {0, 100}
Platforms == {"Qiskit", "Cirq"}

(***************************************************************************)
(* Python helpers: dict with insertion order, negative indexing, slices.   *)
(***************************************************************************)
\* A dict is a sequence of items [k, v] with pairwise distinct keys, in
\* insertion order.
DictKeys(d) == {d[i].k : i \in 1..Len(d)}

DictHas(d, k) == \E i \in 1..Len(d) : d[i].k = k

\* d[k]
DictGet(d, k) == d[CHOOSE i \in 1..Len(d) : d[i].k = k].v

\* d[k] = v : an existing key keeps its place, a new key goes last.
DictSet(d, k, v) ==
    IF DictHas(d, k)
    THEN [i \in 1..Len(d) |-> IF d[i].k = k THEN [k |-> k, v |-> v] ELSE d[i]]
    ELSE Append(d, [k |-> k, v |-> v])

\* del d[k] (the caller has checked that k is a key; a missing key raises)
DictDel(d, k) == SelectSeq(d, LAMBDA it : it.k # k)

\* {**a, **b}
RECURSIVE DictMerge(_, _)
DictMerge(a, b) ==
    IF b = <<>> THEN a
    ELSE DictMerge(DictSet(a, Head(b).k, Head(b).v), Tail(b))

\* {k: (v + off) for k, v in d.items()}
DictShift(d, off) == [i \in 1..Len(d) |-> [k |-> d[i].k, v |-> d[i].v + off]]

\* seq[i] for a Python index i that may be negative; the result is 0-based.
PyIndex(len, i) == IF i < 0 THEN len + i ELSE i

\* range(lo, hi) as a sequence, which is also qreg[lo : hi] of a register
\* whose i-th qubit is the number i.
PyRange(lo, hi) == [i \in 1..(IF hi > lo THEN hi - lo ELSE 0) |-> lo + i - 1]

\* s[::-1]
Reverse(s) == [i \in 1..Len(s) |-> s[Len(s) + 1 - i]]

\* sorted(S) for a finite set of integers
RECURSIVE Sorted(_)
Sorted(S) ==
    IF S = {} THEN <<>>
    ELSE LET m == CHOOSE x \in S : \A y \in S : x <= y
         IN <<m>> \o Sorted(S \ {m})

\* seq.index(x), 0-based
IndexOf(seq, x) == (CHOOSE i \in 1..Len(seq) : seq[i] = x /\ \A j \in 1..(i-1) : seq[j] # x) - 1

(***************************************************************************)
(* The inference tree (Composite).                                         *)
(***************************************************************************)
Fact(tag, certainty) ==
    [kind |-> "Fact", tag |-> tag, certainty |-> certainty]

NotOperator(tag, certainty, child) ==
    [kind |-> "Not", tag |-> tag, certainty |-> certainty, child |-> child]

AndOperator(tag, certainty, left_child, right_child) ==
    [kind |-> "And", tag |-> tag, certainty |-> certainty,
     left_child |-> left_child, right_child |-> right_child]

OrOperator(tag, certainty, left_child, right_child) ==
    [kind |-> "Or", tag |-> tag, certainty |-> certainty,
     left_child |-> left_child, right_child |-> right_child]

(***************************************************************************)
(* Gates and circuits.  A gate is [name, qubits, certainty]; certainty is   *)
(* used by the M gate only.                                                *)
(***************************************************************************)
Gate(name, qubits, certainty) ==
    [name |-> name, qubits |-> qubits, certainty |-> certainty]

\* The gate with its qubits renamed: qubit q becomes map[q].
MapGate(g, map) ==
    [g EXCEPT !.qubits = [i \in 1..Len(g.qubits) |-> map[g.qubits[i]]]]

\* qiskit.QuantumCircuit(QuantumRegister(n))
QuantumCircuit(n) == [num_qubits |-> n, data |-> <<>>]

\* circ.append(gate, qubits) and circ.x / circ.cx / circ.ccx
QAppend(circ, name, qubits, certainty) ==
    [circ EXCEPT !.data = Append(@, Gate(name, qubits, certainty))]

\* circ.compose(other, qubits, inplace=True): qubit i of other is put on
\* qubits[i].
QCompose(circ, other, qubits) ==
    LET map == [q \in 0..(other.num_qubits - 1) |-> qubits[q + 1]]
    IN [circ EXCEPT !.data =
            @ \o [i \in 1..Len(other.data) |-> MapGate(other.data[i], map)]]

\* circuit.all_qubits(): the qubits some operation acts on
AllQubits(circ) ==
    UNION {{circ.ops[i].qubits[j] : j \in 1..Len(circ.ops[i].qubits)} :
             i \in 1..Len(circ.ops)}

\* cirq.Circuit(*operations)
CirqCircuitOf(ops) == [ops |-> ops]

\* CircuitOperation(circ.freeze()).qubits: the circuit's qubits, sorted
CircuitOperationQubits(circ) == Sorted(AllQubits(circ))

\* qubit_map[child_qubit] = qubits[i + offset]
\*     for i, child_qubit in enumerate(child_op.qubits)
QubitMap(circ, qubits, offset) ==
    LET cq == CircuitOperationQubits(circ)
    IN [q \in AllQubits(circ) |-> qubits[IndexOf(cq, q) + offset + 1]]

\* child_op.with_qubit_mapping(qubit_map), as the operations it stands for
WithQubitMapping(circ, map) ==
    [i \in 1..Len(circ.ops) |-> MapGate(circ.ops[i], map)]

(***************************************************************************)
(* A built fragment (class Circuit): the tag map and the backend circuit.  *)
(* raised names the exception that ended the build ("" when none did).     *)
(***************************************************************************)
Fragment(tags, built_circuit) ==
    [tags |-> tags, built_circuit |-> built_circuit, raised |-> ""]

Raise(exc) == [tags |-> <<>>, built_circuit |-> <<>>, raised |-> exc]

RECURSIVE Accept(_, _)

(***************************************************************************)
(* QiskitPlatform                                                          *)
(***************************************************************************)
\* build_fact: tags = {fact.tag: 0}; one qubit with the M operator on it.
QiskitBuildFact(fact) ==
    Fragment(DictSet(<<>>, fact.tag, 0),
             QAppend(QuantumCircuit(1), "M_qiskit", <<0>>, fact.certainty))

\* build_not: height = child.num_qubits + 2
QiskitNotHeight(child_circ) == child_circ.built_circuit.num_qubits + 2

\* build_not with the own tag put on index height instead of height - 1.
QiskitNotTags_HeightIndex(notOperator, child_circ) ==
    DictSet(DictDel(DictMerge(<<>>, child_circ.tags), notOperator.child.tag),
            notOperator.tag, QiskitNotHeight(child_circ))

\* build_not: tags = {**child.tags}; del tags[child.tag]; tags[tag] = height-1
QiskitNotTags(notOperator, child_circ) ==
    DictSet(DictDel(DictMerge(<<>>, child_circ.tags), notOperator.child.tag),
            notOperator.tag, QiskitNotHeight(child_circ) - 1)

\* build_not with the x on qubit w (qreg[-2]) instead of w - 1 (qreg[-3]).
QiskitNotCircuit_XOnW(notOperator, child_circ) ==
    LET height == QiskitNotHeight(child_circ)
        w      == child_circ.built_circuit.num_qubits
        c0     == QCompose(QuantumCircuit(height), child_circ.built_circuit,
                           PyRange(0, w))
        c1     == QAppend(c0, "x", <<PyIndex(height, -2)>>, 0)
        c2     == QAppend(c1, "M_qiskit", <<PyIndex(height, -2)>>,
                          notOperator.certainty)
    IN QAppend(c2, "ccx", <<PyIndex(height, -3), PyIndex(height, -2),
                             PyIndex(height, -1)>>, 0)

\* build_not: compose the child on qreg[0 : w], then x, M, ccx on the last
\* three qubits of the register.
QiskitNotCircuit(notOperator, child_circ) ==
    LET height == QiskitNotHeight(child_circ)
        w      == child_circ.built_circuit.num_qubits
        c0     == QCompose(QuantumCircuit(height), child_circ.built_circuit,
                           PyRange(0, w))
        c1     == QAppend(c0, "x", <<PyIndex(height, -3)>>, 0)
        c2     == QAppend(c1, "M_qiskit", <<PyIndex(height, -2)>>,
                          notOperator.certainty)
    IN QAppend(c2, "ccx", <<PyIndex(height, -3), PyIndex(height, -2),
                             PyIndex(height, -1)>>, 0)

\* build_not deleting its own tag instead of the child's.
QiskitBuildNot_DelOwnTag(notOperator) ==
    LET child_circ == Accept(notOperator.child, "Qiskit")
    IN IF child_circ.raised # "" THEN child_circ
       ELSE IF ~DictHas(child_circ.tags, notOperator.tag)
       THEN Raise("KeyError")
       ELSE Fragment(DictSet(DictDel(DictMerge(<<>>, child_circ.tags),
                                     notOperator.tag),
                             notOperator.tag, QiskitNotHeight(child_circ) - 1),
                     QiskitNotCircuit(notOperator, child_circ))

QiskitBuildNot(notOperator) ==
    LET child_circ == Accept(notOperator.child, "Qiskit")
    IN IF child_circ.raised # "" THEN child_circ
       ELSE IF ~DictHas(child_circ.tags, notOperator.child.tag)
       THEN Raise("KeyError")
       ELSE Fragment(QiskitNotTags(notOperator, child_circ),
                     QiskitNotCircuit(notOperator, child_circ))

\* build_and / build_or: height = left.num_qubits + right.num_qubits + 3
QiskitBinHeight(left_child_circ, right_child_circ) ==
    left_child_circ.built_circuit.num_qubits
        + right_child_circ.built_circuit.num_qubits + 3

\* build_and / build_or with the own tag assigned before the children's.
QiskitBinTags_OwnFirst(op, left_child_circ, right_child_circ) ==
    LET L  == left_child_circ.built_circuit.num_qubits
        R  == right_child_circ.built_circuit.num_qubits
        t0 == DictMerge(DictMerge(<<>>, left_child_circ.tags),
                        DictShift(right_child_circ.tags, L))
        t1 == DictSet(t0, op.tag, QiskitBinHeight(left_child_circ, right_child_circ) - 1)
        t2 == DictSet(t1, op.left_child.tag, L - 1)
    IN DictSet(t2, op.right_child.tag, L + R - 1)

\* build_and / build_or with the tag maps merged the other way round:
\* {**right shifted, **left}.
QiskitBinTags_LeftWins(op, left_child_circ, right_child_circ) ==
    LET L  == left_child_circ.built_circuit.num_qubits
        R  == right_child_circ.built_circuit.num_qubits
        t0 == DictMerge(DictMerge(<<>>, DictShift(right_child_circ.tags, L)),
                        left_child_circ.tags)
        t1 == DictSet(t0, op.left_child.tag, L - 1)
        t2 == DictSet(t1, op.right_child.tag, L + R - 1)
    IN DictSet(t2, op.tag, QiskitBinHeight(left_child_circ, right_child_circ) - 1)

\* build_and / build_or with the right tag map merged as it is, not shifted.
QiskitBinTags_NoShift(op, left_child_circ, right_child_circ) ==
    LET L  == left_child_circ.built_circuit.num_qubits
        R  == right_child_circ.built_circuit.num_qubits
        t0 == DictMerge(DictMerge(<<>>, left_child_circ.tags),
                        right_child_circ.tags)
        t1 == DictSet(t0, op.left_child.tag, L - 1)
        t2 == DictSet(t1, op.right_child.tag, L + R - 1)
    IN DictSet(t2, op.tag, QiskitBinHeight(left_child_circ, right_child_circ) - 1)

\* build_and / build_or: the merged tag map, the right one shifted by the
\* left width, then the three assignments.
QiskitBinTags(op, left_child_circ, right_child_circ) ==
    LET L  == left_child_circ.built_circuit.num_qubits
        R  == right_child_circ.built_circuit.num_qubits
        t0 == DictMerge(DictMerge(<<>>, left_child_circ.tags),
                        DictShift(right_child_circ.tags, L))
        t1 == DictSet(t0, op.left_child.tag, L - 1)
        t2 == DictSet(t1, op.right_child.tag, L + R - 1)
    IN DictSet(t2, op.tag, QiskitBinHeight(left_child_circ, right_child_circ) - 1)

\* build_and / build_or: both children composed side by side, then the
\* Toffoli of the two child output qubits into qreg[-3].
QiskitBinPrefix(left_child_circ, right_child_circ) ==
    LET L      == left_child_circ.built_circuit.num_qubits
        R      == right_child_circ.built_circuit.num_qubits
        height == QiskitBinHeight(left_child_circ, right_child_circ)
        c0     == QCompose(QuantumCircuit(height),
                           left_child_circ.built_circuit, PyRange(0, L))
        c1     == QCompose(c0, right_child_circ.built_circuit,
                           PyRange(L, L + R))
    IN QAppend(c1, "ccx", <<L - 1, L + R - 1, PyIndex(height, -3)>>, 0)

\* build_and / build_or: M on qreg[-2], Toffoli into qreg[-1].
QiskitBinSuffix(circ, certainty) ==
    LET height == circ.num_qubits
        c0     == QAppend(circ, "M_qiskit", <<PyIndex(height, -2)>>, certainty)
    IN QAppend(c0, "ccx", <<PyIndex(height, -3), PyIndex(height, -2),
                             PyIndex(height, -1)>>, 0)

\* build_and with the two cx of build_or.
QiskitAndCircuit_OrGates(andOperator, left_child_circ, right_child_circ) ==
    LET L      == left_child_circ.built_circuit.num_qubits
        R      == right_child_circ.built_circuit.num_qubits
        c0     == QiskitBinPrefix(left_child_circ, right_child_circ)
        height == c0.num_qubits
        c1     == QAppend(c0, "cx", <<L - 1, PyIndex(height, -3)>>, 0)
        c2     == QAppend(c1, "cx", <<L + R - 1, PyIndex(height, -3)>>, 0)
    IN QiskitBinSuffix(c2, andOperator.certainty)

QiskitAndCircuit(andOperator, left_child_circ, right_child_circ) ==
    QiskitBinSuffix(QiskitBinPrefix(left_child_circ, right_child_circ),
                    andOperator.certainty)

\* build_or with control and target of the first cx exchanged: the cx acts
\* on the left child's output qubit.
QiskitOrCircuit_CxOnChild(orOperator, left_child_circ, right_child_circ) ==
    LET L      == left_child_circ.built_circuit.num_qubits
        R      == right_child_circ.built_circuit.num_qubits
        c0     == QiskitBinPrefix(left_child_circ, right_child_circ)
        height == c0.num_qubits
        c1     == QAppend(c0, "cx", <<PyIndex(height, -3), L - 1>>, 0)
        c2     == QAppend(c1, "cx", <<L + R - 1, PyIndex(height, -3)>>, 0)
    IN QiskitBinSuffix(c2, orOperator.certainty)

\* build_or: two more cx, from each child output qubit into qreg[-3].
QiskitOrCircuit(orOperator, left_child_circ, right_child_circ) ==
    LET L      == left_child_circ.built_circuit.num_qubits
        R      == right_child_circ.built_circuit.num_qubits
        c0     == QiskitBinPrefix(left_child_circ, right_child_circ)
        height == c0.num_qubits
        c1     == QAppend(c0, "cx", <<L - 1, PyIndex(height, -3)>>, 0)
        c2     == QAppend(c1, "cx", <<L + R - 1, PyIndex(height, -3)>>, 0)
    IN QiskitBinSuffix(c2, orOperator.certainty)

QiskitBuildAnd(andOperator) ==
    LET left_child_circ  == Accept(andOperator.left_child, "Qiskit")
        right_child_circ == Accept(andOperator.right_child, "Qiskit")
    IN IF left_child_circ.raised # "" THEN left_child_circ
       ELSE IF right_child_circ.raised # "" THEN right_child_circ
       ELSE Fragment(QiskitBinTags(andOperator, left_child_circ, right_child_circ),
                     QiskitAndCircuit(andOperator, left_child_circ, right_child_circ))

QiskitBuildOr(orOperator) ==
    LET left_child_circ  == Accept(orOperator.left_child, "Qiskit")
        right_child_circ == Accept(orOperator.right_child, "Qiskit")
    IN IF left_child_circ.raised # "" THEN left_child_circ
       ELSE IF right_child_circ.raised # "" THEN right_child_circ
       ELSE Fragment(QiskitBinTags(orOperator, left_child_circ, right_child_circ),
                     QiskitOrCircuit(orOperator, left_child_circ, right_child_circ))

(***************************************************************************)
(* CirqPlatform.  The width of a fragment is not stored: it is             *)
(* len(built_circuit.all_qubits()).                                        *)
(***************************************************************************)
CirqWidth(circ) == Cardinality(AllQubits(circ.built_circuit))

\* build_fact: tags = {fact.tag: 0}; tags[fact.tag] = 0; MGate on LineQubit(0)
CirqBuildFact(fact) ==
    Fragment(DictSet(DictSet(<<>>, fact.tag, 0), fact.tag, 0),
             CirqCircuitOf(<<Gate("M_cirq", <<0>>, fact.certainty)>>))

\* build_not: height = len(child.all_qubits()) + 2
CirqNotHeight(child_circ) == CirqWidth(child_circ) + 2

\* build_not without the del of the child's tag.
CirqNotTags_NoDel(notOperator, child_circ) ==
    DictSet(DictMerge(<<>>, child_circ.tags),
            notOperator.tag, CirqNotHeight(child_circ) - 1)

\* build_not: tags = {**child.tags}; del tags[child.tag]; tags[tag] = height-1
CirqNotTags(notOperator, child_circ) ==
    DictSet(DictDel(DictMerge(<<>>, child_circ.tags), notOperator.child.tag),
            notOperator.tag, CirqNotHeight(child_circ) - 1)

\* build_not with the X on the certainty qubit w (qubits[-2]).
CirqNotCircuit_XOnW(notOperator, child_circ) ==
    LET height == CirqNotHeight(child_circ)
        qubits == PyRange(0, height)
        qubit_map == QubitMap(child_circ.built_circuit, qubits, 0)
    IN CirqCircuitOf(
         WithQubitMapping(child_circ.built_circuit, qubit_map)
         \o << Gate("X", <<qubits[PyIndex(height, -2) + 1]>>, 0),
               Gate("M_cirq", <<qubits[PyIndex(height, -2) + 1]>>,
                    notOperator.certainty),
               Gate("CCNOT", <<qubits[PyIndex(height, -3) + 1],
                               qubits[PyIndex(height, -2) + 1],
                               qubits[PyIndex(height, -1) + 1]>>, 0) >>)

\* build_not: the child operation mapped on qubits[i], then X, MGate and
\* CCNOT on the last three of LineQubit.range(height).
CirqNotCircuit(notOperator, child_circ) ==
    LET height == CirqNotHeight(child_circ)
        qubits == PyRange(0, height)
        qubit_map == QubitMap(child_circ.built_circuit, qubits, 0)
    IN CirqCircuitOf(
         WithQubitMapping(child_circ.built_circuit, qubit_map)
         \o << Gate("X", <<qubits[PyIndex(height, -3) + 1]>>, 0),
               Gate("M_cirq", <<qubits[PyIndex(height, -2) + 1]>>,
                    notOperator.certainty),
               Gate("CCNOT", <<qubits[PyIndex(height, -3) + 1],
                               qubits[PyIndex(height, -2) + 1],
                               qubits[PyIndex(height, -1) + 1]>>, 0) >>)

CirqBuildNot(notOperator) ==
    LET child_circ == Accept(notOperator.child, "Cirq")
    IN IF child_circ.raised # "" THEN child_circ
       ELSE IF ~DictHas(child_circ.tags, notOperator.child.tag)
       THEN Raise("KeyError")
       ELSE Fragment(CirqNotTags(notOperator, child_circ),
                     CirqNotCircuit(notOperator, child_circ))

\* build_and / build_or with the two extra qubits of build_not.
CirqBinHeight_Plus2(left_child_circ, right_child_circ) ==
    CirqWidth(left_child_circ) + CirqWidth(right_child_circ) + 2

\* build_and / build_or: height = len(left.all_qubits())
\*                                + len(right.all_qubits()) + 3
CirqBinHeight(left_child_circ, right_child_circ) ==
    CirqWidth(left_child_circ) + CirqWidth(right_child_circ) + 3

\* build_and / build_or with the right tag map merged as it is, not shifted.
CirqBinTags_NoShift(op, left_child_circ, right_child_circ) ==
    LET L  == CirqWidth(left_child_circ)
        R  == CirqWidth(right_child_circ)
        t0 == DictMerge(DictMerge(<<>>, left_child_circ.tags),
                        right_child_circ.tags)
        t1 == DictSet(t0, op.left_child.tag, L - 1)
        t2 == DictSet(t1, op.right_child.tag, L + R - 1)
    IN DictSet(t2, op.tag, CirqBinHeight(left_child_circ, right_child_circ) - 1)

\* build_and / build_or: the merged tag map, the right one shifted by the
\* left width, then the three assignments.
CirqBinTags(op, left_child_circ, right_child_circ) ==
    LET L  == CirqWidth(left_child_circ)
        R  == CirqWidth(right_child_circ)
        t0 == DictMerge(DictMerge(<<>>, left_child_circ.tags),
                        DictShift(right_child_circ.tags, L))
        t1 == DictSet(t0, op.left_child.tag, L - 1)
        t2 == DictSet(t1, op.right_child.tag, L + R - 1)
    IN DictSet(t2, op.tag, CirqBinHeight(left_child_circ, right_child_circ) - 1)

\* build_and / build_or: both child operations, the right one mapped on
\* qubits[i + L], then the CCNOT of the two child output qubits into
\* qubits[-3].
CirqBinPrefix(left_child_circ, right_child_circ) ==
    LET L      == CirqWidth(left_child_circ)
        R      == CirqWidth(right_child_circ)
        height == CirqBinHeight(left_child_circ, right_child_circ)
        qubits == PyRange(0, height)
        left_qubit_map  == QubitMap(left_child_circ.built_circuit, qubits, 0)
        right_qubit_map == QubitMap(right_child_circ.built_circuit, qubits, L)
    IN WithQubitMapping(left_child_circ.built_circuit, left_qubit_map)
       \o WithQubitMapping(right_child_circ.built_circuit, right_qubit_map)
       \o << Gate("CCNOT", <<qubits[L - 1 + 1], qubits[L + R - 1 + 1],
                             qubits[PyIndex(height, -3) + 1]>>, 0) >>

\* build_and / build_or: MGate on qubits[-2], CCNOT into qubits[-1].
CirqBinSuffix(height, certainty) ==
    LET qubits == PyRange(0, height)
    IN << Gate("M_cirq", <<qubits[PyIndex(height, -2) + 1]>>, certainty),
          Gate("CCNOT", <<qubits[PyIndex(height, -3) + 1],
                          qubits[PyIndex(height, -2) + 1],
                          qubits[PyIndex(height, -1) + 1]>>, 0) >>

CirqAndCircuit(andOperator, left_child_circ, right_child_circ) ==
    CirqCircuitOf(
      CirqBinPrefix(left_child_circ, right_child_circ)
      \o CirqBinSuffix(CirqBinHeight(left_child_circ, right_child_circ),
                       andOperator.certainty))

\* build_or without the CNOT from the right child's output qubit.
CirqOrCircuit_OneCnot(orOperator, left_child_circ, right_child_circ) ==
    LET L      == CirqWidth(left_child_circ)
        R      == CirqWidth(right_child_circ)
        height == CirqBinHeight(left_child_circ, right_child_circ)
        qubits == PyRange(0, height)
    IN CirqCircuitOf(
         CirqBinPrefix(left_child_circ, right_child_circ)
         \o << Gate("CNOT", <<qubits[L - 1 + 1],
                              qubits[PyIndex(height, -3) + 1]>>, 0),
               Gate("CNOT", <<qubits[L - 1 + 1],
                              qubits[PyIndex(height, -3) + 1]>>, 0) >>
         \o CirqBinSuffix(height, orOperator.certainty))

\* build_or: two more CNOT, from each child output qubit into qubits[-3].
CirqOrCircuit(orOperator, left_child_circ, right_child_circ) ==
    LET L      == CirqWidth(left_child_circ)
        R      == CirqWidth(right_child_circ)
        height == CirqBinHeight(left_child_circ, right_child_circ)
        qubits == PyRange(0, height)
    IN CirqCircuitOf(
         CirqBinPrefix(left_child_circ, right_child_circ)
         \o << Gate("CNOT", <<qubits[L - 1 + 1],
                              qubits[PyIndex(height, -3) + 1]>>, 0),
               Gate("CNOT", <<qubits[L + R - 1 + 1],
                              qubits[PyIndex(height, -3) + 1]>>, 0) >>
         \o CirqBinSuffix(height, orOperator.certainty))

CirqBuildAnd(andOperator) ==
    LET left_child_circ  == Accept(andOperator.left_child, "Cirq")
        right_child_circ == Accept(andOperator.right_child, "Cirq")
    IN IF left_child_circ.raised # "" THEN left_child_circ
       ELSE IF right_child_circ.raised # "" THEN right_child_circ
       ELSE Fragment(CirqBinTags(andOperator, left_child_circ, right_child_circ),
                     CirqAndCircuit(andOperator, left_child_circ, right_child_circ))

CirqBuildOr(orOperator) ==
    LET left_child_circ  == Accept(orOperator.left_child, "Cirq")
        right_child_circ == Accept(orOperator.right_child, "Cirq")
    IN IF left_child_circ.raised # "" THEN left_child_circ
       ELSE IF right_child_circ.raised # "" THEN right_child_circ
       ELSE Fragment(CirqBinTags(orOperator, left_child_circ, right_child_circ),
                     CirqOrCircuit(orOperator, left_child_circ, right_child_circ))

(***************************************************************************)
(* accept (Visitor): each node kind calls its build method of the platform. *)
(***************************************************************************)
Accept(node, platform) ==
    CASE node.kind = "Fact" ->
           IF platform = "Qiskit" THEN QiskitBuildFact(node) ELSE CirqBuildFact(node)
      [] node.kind = "Not" ->
           IF platform = "Qiskit" THEN QiskitBuildNot(node) ELSE CirqBuildNot(node)
      [] node.kind = "And" ->
           IF platform = "Qiskit" THEN QiskitBuildAnd(node) ELSE CirqBuildAnd(node)
      [] node.kind = "Or" ->
           IF platform = "Qiskit" THEN QiskitBuildOr(node) ELSE CirqBuildOr(node)

\* The width of a built fragment, as each backend reports it.
Width(frag, platform) ==
    IF platform = "Qiskit" THEN frag.built_circuit.num_qubits ELSE CirqWidth(frag)

\* The gates of a built circuit, in program order.
GatesOf(frag, platform) ==
    IF platform = "Qiskit" THEN frag.built_circuit.data ELSE frag.built_circuit.ops

(***************************************************************************)
(* The simulators.  Every gate but M permutes the basis states, and M acts *)
(* on one qubit; a shot is followed branch by branch: choice[m] is the bit *)
(* the m-th M gate leaves on its qubit.  A branch carries whether its      *)
(* basis state has nonzero amplitude, and the squared amplitude (in        *)
(* quarter units per M gate) when every certainty is 0, 0.5 or 1.          *)
(***************************************************************************)
IsM(g) == g.name \in {"M_qiskit", "M_cirq"}

\* The certainties c for which sin^2(c*pi/2) is rational: then it is c.
Exact(certainty) == certainty \in {0, 50, 100}

\* The M matrix with cos and sin exchanged.
SqEntry_Swapped(g, row, col) ==
    LET sin2 == g.certainty \div 25
        cos2 == 4 - g.certainty \div 25
        e    == IF row = col THEN sin2 ELSE cos2
    IN IF g.name = "M_qiskit" THEN e ELSE e \div 2

\* The squared entry (row, col) of the M matrix for a certainty of 0, 0.5
\* or 1, in quarter units.
\* _build_m_operator: [[cos a, sin a], [sin a, -cos a]], a = certainty*pi/2
\* MGate._unitary_:   the same matrix / sqrt(2)
SqEntry(g, row, col) ==
    LET sin2 == g.certainty \div 25        \* 4 sin^2(a)
        cos2 == 4 - g.certainty \div 25    \* 4 cos^2(a)
        e    == IF row = col THEN cos2 ELSE sin2
    IN IF g.name = "M_qiskit" THEN e ELSE e \div 2

\* The entry (row, col) of the M matrix is not zero: for a certainty c in
\* [0, 1], sin(c*pi/2) is zero only at c = 0 and cos(c*pi/2) only at c = 1.
NonZero(g, row, col) ==
    IF row = col THEN g.certainty # 100 ELSE g.certainty # 0

\* X / CNOT / CCNOT on a basis state: the last qubit is flipped when all the
\* others are 1.  barrier and measure leave the basis state as it is.
ApplyClassical(g, bits) ==
    IF g.name \in {"x", "cx", "ccx", "X", "CNOT", "CCNOT"}
    THEN LET n == Len(g.qubits)
             t == g.qubits[n] + 1
         IN IF \A j \in 1..(n - 1) : bits[g.qubits[j] + 1] = 1
            THEN [bits EXCEPT ![t] = 1 - @]
            ELSE bits
    ELSE bits

RECURSIVE Evolve(_, _, _, _, _)
Evolve(gates, choice, i, m, st) ==
    IF i > Len(gates) THEN st
    ELSE LET g == gates[i] IN
         IF IsM(g)
         THEN LET q == g.qubits[1] + 1
              IN Evolve(gates, choice, i + 1, m + 1,
                        [st EXCEPT
                           !.bits     = [@ EXCEPT ![q] = choice[m]],
                           !.possible = @ /\ NonZero(g, choice[m], st.bits[q]),
                           !.weight   = IF Exact(g.certainty)
                                        THEN @ * SqEntry(g, choice[m], st.bits[q])
                                        ELSE @])
         ELSE Evolve(gates, choice, i + 1, m,
                     [st EXCEPT !.bits = ApplyClassical(g, @)])

NumM(gates) == Cardinality({i \in 1..Len(gates) : IsM(gates[i])})

\* Every M gate of the circuit has a certainty of 0, 0.5 or 1.
AllExact(gates) ==
    \A i \in 1..Len(gates) : IsM(gates[i]) => Exact(gates[i].certainty)

\* The basis state reached by a shot in which the M gates leave `choice`,
\* from |0...0> on n qubits; the shot keeps the bits of its M gates.  weight
\* is the product of the squared entries of the M gates of certainty 0, 0.5
\* or 1: the squared amplitude of the basis state when all of them are.
Branch(gates, n, choice) ==
    Evolve(gates, choice, 1, 1,
           [bits |-> [q \in 1..n |-> 0], possible |-> TRUE, weight |-> 1,
            choice |-> choice])

\* The final state vector: the basis states of nonzero amplitude.
StateVector(gates, n) ==
    {b \in {Branch(gates, n, ch) : ch \in [1..NumM(gates) -> {0, 1}]} :
        b.possible}

\* The sum of x.n over a finite set of records [key, n] with pairwise
\* distinct keys (sequences of equal length over two values): the set is
\* split on the q-th place of the key until one record is left.
RECURSIVE SumFrom(_, _)
SumFrom(S, q) ==
    IF S = {} THEN 0
    ELSE LET x == CHOOSE y \in S : TRUE
         IN IF S = {x} THEN x.n
            ELSE LET same == {y \in S : y.key[q] = x.key[q]}
                 IN SumFrom(same, q + 1) + SumFrom(S \ same, q + 1)

\* np.sum over the squared amplitudes of the state vector
SumWeight(S) == SumFrom({[key |-> b.bits, n |-> b.weight] : b \in S}, 1)

RECURSIVE Pow4(_)
Pow4(k) == IF k = 0 THEN 1 ELSE 4 * Pow4(k - 1)

\* What the squared amplitudes are divided by to give probabilities: Aer
\* samples |amplitude|^2 as it is (one in quarter units per M gate); cirq's
\* sampler divides the squared amplitudes by their sum.
Norm(gates, sv, platform) ==
    IF platform = "Qiskit" THEN Pow4(NumM(gates)) ELSE SumWeight(sv)

\* The probability that a shot leaves qubit q at 1, for a circuit all of
\* whose certainties are 0, 0.5 or 1.
Probability(gates, n, platform, q) ==
    LET sv == StateVector(gates, n)
    IN [num |-> SumWeight({b \in sv : b.bits[q + 1] = 1}),
        den |-> Norm(gates, sv, platform)]

\* The number of shots each backend runs.
QiskitShots == 1024
CirqRepetitions == 1024
ShotsOf(platform) == IF platform = "Qiskit" THEN QiskitShots ELSE CirqRepetitions

\* One basis state of a histogram: its bits, the bits the M gates left in
\* its shots, and the number of shots that gave it.
Seen(b, count) == [bits |-> b.bits, choice |-> b.choice, count |-> count]

\* Every way in which k shots fall on the basis states of S; a basis state
\* no shot gave is no entry of the histogram.
RECURSIVE Distributions(_, _)
Distributions(S, k) ==
    IF S = {} THEN (IF k = 0 THEN {{}} ELSE {})
    ELSE LET b == CHOOSE x \in S : TRUE
         IN UNION {{(IF c > 0 THEN {Seen(b, c)} ELSE {}) \cup rest :
                       rest \in Distributions(S \ {b}, k - c)} : c \in 0..k}

\* The shots of a histogram.
SumCount(S) == SumFrom({[key |-> h.bits, n |-> h.count] : h \in S}, 1)

\* hist is the histogram of a run of k shots of the circuit: every entry is
\* a basis state of its state vector (the bits the M gates left in the
\* shots lead to the entry's bits, through entries of the M matrices that
\* are not zero) with the number of shots that gave it, no basis state has
\* two entries, and the counts add up to the k shots.
IsRun(hist, gates, n, k) ==
    /\ \A h \in hist :
         LET b == Branch(gates, n, h.choice)
         IN b.possible /\ b.bits = h.bits
    /\ \A h1, h2 \in hist : h1.bits = h2.bits => h1 = h2
    /\ SumCount(hist) = k

\* The histograms a run may give: any number of shots on each basis state
\* of nonzero amplitude, all the shots together (the state vector of a
\* circuit built from a tree has 2^u basis states, u the number of
\* certainties other than 0 and 1).
Histograms(gates, n, platform) ==
    {hist \in SUBSET [bits   : [1..n -> {0, 1}],
                      choice : [1..NumM(gates) -> {0, 1}],
                      count  : 1..ShotsOf(platform)] :
        IsRun(hist, gates, n, ShotsOf(platform))}

(***************************************************************************)
(* QiskitPlatform.execute                                                  *)
(***************************************************************************)
BitChar(b) == IF b = 1 THEN "1" ELSE "0"

\* measure_all on a copy of the circuit: the fragment's circuit stays as it is.
QiskitMeasureAll_Copy(circ) == circ

\* circ.measure_all(): a barrier and the measurement of every qubit into a
\* new classical register, added to the fragment's own circuit.
QiskitMeasureAll(circ) ==
    LET all == PyRange(0, circ.num_qubits)
    IN QAppend(QAppend(circ, "barrier", all, 0), "measure", all, 0)

\* The classical registers of the circuit: each measure_all adds one.
NumCregs(circ) ==
    Cardinality({i \in 1..Len(circ.data) : circ.data[i].name = "measure"})

\* The bit string of one classical register, qubit 0 rightmost.
CregString(bits) == [i \in 1..Len(bits) |-> BitChar(bits[Len(bits) + 1 - i])]

\* The bit strings of k registers, separated by a space; every register of
\* the circuit holds the measurement of all the qubits in the same basis
\* state (no gate stands between two measurements).
RECURSIVE CregStrings(_, _)
CregStrings(bits, k) ==
    IF k <= 1 THEN CregString(bits)
    ELSE CregString(bits) \o <<" ">> \o CregStrings(bits, k - 1)

\* result.get_counts(): one item per basis state seen; the key holds the
\* bit strings of the classical registers, the last added leftmost.
QiskitGetCounts(circ, hist) ==
    {[k |-> CregStrings(h.bits, NumCregs(circ)), v |-> h.count] : h \in hist}

\* The keys of counts left as get_counts gives them.
QiskitReverseKeys_None(counts) == counts

\* counts = {k[::-1]: v for k, v in counts.items()}
QiskitReverseKeys(counts) == {[k |-> Reverse(it.k), v |-> it.v] : it \in counts}

\* temp: the sum of vc over the items of counts with kc[vq] == '1'
QiskitTemp(counts, vq) ==
    SumFrom({[key |-> it.k, n |-> IF it.k[vq + 1] = "1" THEN it.v ELSE 0] :
               it \in counts}, 1)

\* values: one {'tag', 'measure': temp/1024} per item of tags, in its order
QiskitValues(tags, counts) ==
    [i \in 1..Len(tags) |->
        [tag |-> tags[i].k,
         measure |-> [num |-> QiskitTemp(counts, tags[i].v), den |-> 1024]]]

\* kc[vq] raises IndexError when vq is no index of the key.
QiskitRaises(tags, counts) ==
    IF \E i \in 1..Len(tags), it \in counts :
          tags[i].v >= Len(it.k) \/ tags[i].v < -Len(it.k)
    THEN "IndexError" ELSE ""

\* The counts execute reads, for the circuit with its measurements added.
QiskitCounts(circ, hist) == QiskitReverseKeys(QiskitGetCounts(circ, hist))

QiskitExecute(frag, hist) ==
    QiskitValues(frag.tags,
                 QiskitCounts(QiskitMeasureAll(frag.built_circuit), hist))

(***************************************************************************)
(* CirqPlatform.execute                                                    *)
(***************************************************************************)
DigitChars == <<"0", "1", "2", "3", "4", "5", "6", "7", "8", "9">>

\* str(n) for 0 <= n < 100
Str(n) == IF n < 10 THEN <<DigitChars[n + 1]>>
          ELSE <<DigitChars[(n \div 10) + 1], DigitChars[(n % 10) + 1]>>

\* The key of cirq.measure(*qubits): the qubits' names "q(i)", comma-joined.
RECURSIVE MeasurementKeyFrom(_, _)
MeasurementKeyFrom(order, i) ==
    IF i > Len(order) THEN <<>>
    ELSE <<"q", "(">> \o Str(order[i]) \o <<")">>
         \o (IF i < Len(order) THEN <<",">> ELSE <<>>)
         \o MeasurementKeyFrom(order, i + 1)

MeasurementKey(order) == MeasurementKeyFrom(order, 1)

IsDigit(c) == \E d \in 1..10 : DigitChars[d] = c

\* int(s) for a string of digits
RECURSIVE ParseInt(_, _)
ParseInt(s, acc) ==
    IF s = <<>> THEN acc
    ELSE ParseInt(Tail(s), 10 * acc + IndexOf(DigitChars, Head(s)))

\* re.findall("[0-9]+", key), as integers: the maximal runs of digits, from
\* left to right.
FindAllInts(key) ==
    LET starts  == {i \in 1..Len(key) :
                      IsDigit(key[i]) /\ (i = 1 \/ ~IsDigit(key[i - 1]))}
        stop(i) == CHOOSE j \in i..Len(key) :
                      /\ \A m \in i..j : IsDigit(key[m])
                      /\ (j = Len(key) \/ ~IsDigit(key[j + 1]))
        first   == Sorted(starts)
    IN [n \in 1..Len(first) |->
          ParseInt(SubSeq(key, first[n], stop(first[n])), 0)]

\* circ.append(cirq.measure(*circ.all_qubits())): one measurement of all the
\* qubits, in the order the frozenset gives them.
CirqAppendMeasure(circ, order) ==
    [circ EXCEPT !.ops = Append(@, Gate("measure", order, 0))]

\* result.measurements[key]: one row per repetition, holding the bits of the
\* measured qubits in the order of the measurement; equal rows are kept
\* once, with the number of repetitions that gave them.
CirqMeasures(hist, order) ==
    {[row |-> [j \in 1..Len(order) |-> h.bits[order[j] + 1]], count |-> h.count] :
        h \in hist}

\* temp: the sum of value[keys.index(vq)] over the rows
\* temp read from column vq of the rows, whatever the key says.
CirqTemp_ByPosition(measures, keys, vq) ==
    SumFrom({[key |-> r.row, n |-> r.row[vq + 1] * r.count] : r \in measures}, 1)

CirqTemp(measures, keys, vq) ==
    SumFrom({[key |-> r.row, n |-> r.row[IndexOf(keys, vq) + 1] * r.count] :
               r \in measures}, 1)

\* values: one {'tag', 'measure': temp/1024} per item of tags, in its order
CirqValues(tags, measures, keys) ==
    [i \in 1..Len(tags) |->
        [tag |-> tags[i].k,
         measure |-> [num |-> CirqTemp(measures, keys, tags[i].v), den |-> 1024]]]

\* keys = list(map(int, re.findall("[0-9]+", keys[0])))
CirqKeys(order) == FindAllInts(MeasurementKey(order))

\* What ends the call once the measurement is appended: a circuit that
\* measures the same key twice has no two-dimensional measurements, and one
\* with two keys does not unpack into [measures] (both ValueError);
\* keys.index(vq) raises ValueError when vq is not among the keys.
CirqRaises(circ, tags, order) ==
    IF Cardinality({i \in 1..Len(circ.ops) : circ.ops[i].name = "measure"}) # 1
    THEN "ValueError"
    ELSE LET keys == CirqKeys(order)
         IN IF \E i \in 1..Len(tags) :
                  \A j \in 1..Len(keys) : keys[j] # tags[i].v
            THEN "ValueError" ELSE ""

CirqExecute(frag, hist, order) ==
    CirqValues(frag.tags, CirqMeasures(hist, order), CirqKeys(order))

\* The orders in which the frozenset all_qubits() may hand out n qubits: the
\* iteration order of a frozenset is fixed by the hashes of its elements
\* and the history of the set, which the program does not control, so it
\* may be any order of the n qubits.
MeasureOrders(n) ==
    {order \in [1..n -> 0..(n - 1)] :
        \A i, j \in 1..n : order[i] = order[j] => i = j}

(***************************************************************************)
(* The caller: it constructs a tree with the four constructors (the        *)
(* arguments of a constructor call are evaluated first, left to right, so  *)
(* the finished subtrees wait on a stack), has a platform build it and     *)
(* executes the fragment, then has the next platform build the same tree   *)
(* and executes that fragment, as tests/test_qrbs.py does.                 *)
(***************************************************************************)
VARIABLES
    stack,      \* the subtrees constructed and not yet given to a parent
    phase,      \* "construct", "built", "executed", "raised"
    platform,   \* the platform of the last accept
    frag,       \* the fragment the last accept returned
    builds,     \* the accepts of the tree so far
    prev,       \* tags and width of the fragment of the accept before
    shots,      \* the histogram of the last run: basis states by qubit
                \* index, each with the bits the M gates left in its shots
    values,     \* Result.values of the last execute
    executes,   \* the calls of execute on the fragment frag so far
    raised      \* the exception that ended the last execute ("" when none did)

vars == <<stack, phase, platform, frag, builds, prev, shots, values,
          executes, raised>>

RECURSIVE Size(_)
Size(node) ==
    CASE node.kind = "Fact" -> 1
      [] node.kind = "Not"  -> 1 + Size(node.child)
      [] OTHER -> 1 + Size(node.left_child) + Size(node.right_child)

RECURSIVE NodesOf(_)
\* The nodes of a tree: the tree and the subtrees below it.
NodesOf(node) ==
    CASE node.kind = "Fact" -> {node}
      [] node.kind = "Not"  -> {node} \cup NodesOf(node.child)
      [] OTHER -> {node} \cup NodesOf(node.left_child) \cup NodesOf(node.right_child)

TagsOf(node) == {n.tag : n \in NodesOf(node)}

StackNodes(st) ==
    LET f[i \in 0..Len(st)] == IF i = 0 THEN 0 ELSE f[i - 1] + Size(st[i])
    IN f[Len(st)]

StackTags(st) == UNION {TagsOf(st[i]) : i \in 1..Len(st)}

\* The tags a new node may carry: the next new one, and, when the caller
\* repeats tags, one already used.
FreshTags(st, repeat) ==
    (IF Cardinality(StackTags(st)) < Len(TagNames)
     THEN {TagNames[Cardinality(StackTags(st)) + 1]} ELSE {})
    \cup (IF repeat THEN StackTags(st) ELSE {})

RECURSIVE Depth(_)
Depth(node) ==
    CASE node.kind = "Fact" -> 1
      [] node.kind = "Not"  -> 1 + Depth(node.child)
      [] OTHER -> 1 + (IF Depth(node.left_child) >= Depth(node.right_child)
                       THEN Depth(node.left_child)
                       ELSE Depth(node.right_child))

\* The least depth of the one tree a stack of subtrees becomes: the binary
\* operators take the subtrees from the top of the stack.
StackDepth(st) ==
    LET f[i \in 1..Len(st)] ==
          IF i = Len(st) THEN Depth(st[i])
          ELSE 1 + (IF Depth(st[i]) >= f[i + 1] THEN Depth(st[i]) ELSE f[i + 1])
    IN IF st = <<>> THEN 0 ELSE f[1]

\* A stack of subtrees still becomes one tree of at most max nodes and of
\* depth at most depth: each binary operator takes two subtrees and adds a
\* node.
Fits(st, max, depth) ==
    /\ StackNodes(st) + (Len(st) - 1) <= max
    /\ StackDepth(st) <= depth

NoFragment == [tags |-> <<>>, built_circuit |-> <<>>, raised |-> ""]
NoPrev == [platform |-> "", tags |-> <<>>, width |-> 0]

Init ==
    /\ stack = <<>>
    /\ phase = "construct"
    /\ platform = ""
    /\ frag = NoFragment
    /\ builds = 0
    /\ prev = NoPrev
    /\ shots = {}
    /\ values = <<>>
    /\ executes = 0
    /\ raised = ""

Built == UNCHANGED <<phase, platform, frag, builds, prev, shots, values,
                     executes, raised>>

NewFact(C, max, depth, repeat) ==
    /\ phase = "construct"
    /\ \E tag \in FreshTags(stack, repeat), certainty \in C :
         stack' = Append(stack, Fact(tag, certainty))
    /\ Fits(stack', max, depth)
    /\ Built

NewNot(C, max, depth, repeat) ==
    /\ phase = "construct"
    /\ Len(stack) >= 1
    /\ \E tag \in FreshTags(stack, repeat), certainty \in C :
         stack' = Append(SubSeq(stack, 1, Len(stack) - 1),
                         NotOperator(tag, certainty, stack[Len(stack)]))
    /\ Fits(stack', max, depth)
    /\ Built

NewAnd(C, max, depth, repeat) ==
    /\ phase = "construct"
    /\ Len(stack) >= 2
    /\ \E tag \in FreshTags(stack, repeat), certainty \in C :
         stack' = Append(SubSeq(stack, 1, Len(stack) - 2),
                         AndOperator(tag, certainty, stack[Len(stack) - 1],
                                     stack[Len(stack)]))
    /\ Fits(stack', max, depth)
    /\ Built

NewOr(C, max, depth, repeat) ==
    /\ phase = "construct"
    /\ Len(stack) >= 2
    /\ \E tag \in FreshTags(stack, repeat), certainty \in C :
         stack' = Append(SubSeq(stack, 1, Len(stack) - 2),
                         OrOperator(tag, certainty, stack[Len(stack) - 1],
                                    stack[Len(stack)]))
    /\ Fits(stack', max, depth)
    /\ Built

\* circuit = tree.accept(platform), the first build of the tree
Build ==
    /\ phase = "construct"
    /\ Len(stack) = 1
    /\ \E p \in Platforms :
         /\ platform' = p
         /\ frag' = Accept(stack[1], p)
    /\ phase' = "built"
    /\ builds' = 1
    /\ UNCHANGED <<stack, prev, shots, values, executes, raised>>

\* tree.accept(platform) once more, before or after the fragment of the
\* accept before was executed: a fresh call on the same tree, which gives a
\* new fragment that no execute has been called on.  The caller keeps what
\* the last execute returned.
Rebuild ==
    /\ phase \in {"built", "executed", "raised"}
    /\ builds < MaxBuilds
    /\ \E p \in Platforms :
         /\ platform' = p
         /\ frag' = Accept(stack[1], p)
    /\ prev' = [platform |-> platform, tags |-> frag.tags,
                width |-> Width(frag, platform)]
    /\ builds' = builds + 1
    /\ phase' = "built"
    /\ executes' = 0
    /\ UNCHANGED <<stack, shots, values, raised>>

\* platform.execute(circuit): the measurement goes into the fragment's own
\* circuit, the run gives a histogram, the values are read off the tag map.
\* The run may be any histogram of the shots over the state vector and, on
\* Cirq, the order any order of the qubits, and every one of them is a
\* step.  The calls that are followed are bounded: a fragment is executed
\* at most max times, and more than once only the fragment of a tree of at
\* most maxnodes nodes; a circuit is executed when its state vector has at
\* most MaxSplitStates basis states, one with more than one basis state
\* when it has at most MaxSplitWidth qubits (on Cirq MaxSplitOrderWidth);
\* on Cirq a circuit is executed when it has at most MaxOrderWidth qubits,
\* and once more when it has at most MaxRunOrderWidth.
Execute(max, maxnodes) ==
    /\ phase \in {"built", "executed", "raised"}
    /\ frag.raised = ""
    /\ executes < max
    /\ executes >= 1 => Size(stack[1]) <= maxnodes
    /\ LET n  == Width(frag, platform)
           sv == StateVector(GatesOf(frag, platform), n)
       IN /\ Cardinality(sv) <= MaxSplitStates
          /\ Cardinality(sv) > 1 =>
                n <= (IF platform = "Qiskit" THEN MaxSplitWidth
                                             ELSE MaxSplitOrderWidth)
          /\ platform = "Cirq" =>
                n <= (IF executes = 0 THEN MaxOrderWidth ELSE MaxRunOrderWidth)
          /\ \E hist \in Distributions(sv, ShotsOf(platform)) :
                IF platform = "Qiskit"
                THEN LET circ == QiskitMeasureAll(frag.built_circuit)
                         exc  == QiskitRaises(frag.tags, QiskitCounts(circ, hist))
                     IN /\ frag' = [frag EXCEPT !.built_circuit = circ]
                        /\ shots' = hist
                        /\ raised' = exc
                        /\ values' = IF exc = "" THEN QiskitExecute(frag, hist)
                                                 ELSE <<>>
                ELSE \E order \in MeasureOrders(n) :
                     LET circ == CirqAppendMeasure(frag.built_circuit, order)
                         exc  == CirqRaises(circ, frag.tags, order)
                     IN /\ frag' = [frag EXCEPT !.built_circuit = circ]
                        /\ shots' = hist
                        /\ raised' = exc
                        /\ values' = IF exc = ""
                                     THEN CirqExecute(frag, hist, order)
                                     ELSE <<>>
    /\ phase' = IF raised' = "" THEN "executed" ELSE "raised"
    /\ executes' = executes + 1
    /\ UNCHANGED <<stack, platform, builds, prev>>

\* A tree with pairwise distinct tags and any certainties is constructed,
\* built on one platform and executed.
Next ==
    \/ NewFact(Certainties, MaxNodes, MaxNodes, FALSE)
    \/ NewNot(Certainties, MaxNodes, MaxNodes, FALSE)
    \/ NewAnd(Certainties, MaxNodes, MaxNodes, FALSE)
    \/ NewOr(Certainties, MaxNodes, MaxNodes, FALSE)
    \/ Build
    \/ Execute(1, MaxNodes)

Spec == Init /\ [][Next]_vars

\* A tree whose tags may repeat is constructed and built, and built once
\* more.
NextBuild ==
    \/ NewFact(BuildCertainties, MaxBuildNodes, MaxBuildNodes, TRUE)
    \/ NewNot(BuildCertainties, MaxBuildNodes, MaxBuildNodes, TRUE)
    \/ NewAnd(BuildCertainties, MaxBuildNodes, MaxBuildNodes, TRUE)
    \/ NewOr(BuildCertainties, MaxBuildNodes, MaxBuildNodes, TRUE)
    \/ Build
    \/ Rebuild

SpecBuild == Init /\ [][NextBuild]_vars

\* A tree whose tags may repeat and both of whose children may be binary
\* operators is constructed and built.
NextMerge ==
    \/ NewFact(BuildCertainties, MaxMergeNodes, MaxMergeDepth, TRUE)
    \/ NewNot(BuildCertainties, MaxMergeNodes, MaxMergeDepth, TRUE)
    \/ NewAnd(BuildCertainties, MaxMergeNodes, MaxMergeDepth, TRUE)
    \/ NewOr(BuildCertainties, MaxMergeNodes, MaxMergeDepth, TRUE)
    \/ Build

SpecMerge == Init /\ [][NextMerge]_vars

\* The tree of tests/test_qrbs.py.
TestTree ==
    AndOperator("I", 90,
        OrOperator("E", 67,
            AndOperator("C", 75, Fact("A", 100), Fact("B", 40)),
            Fact("D", 42)),
        OrOperator("H", 76, Fact("F", 33), Fact("G", 85)))

\* test_qrbs: the caller constructs the tree of the test.
NewTestTree ==
    /\ phase = "construct"
    /\ stack = <<>>
    /\ stack' = <<TestTree>>
    /\ Built

\* A tree whose tags may repeat, or the tree of the test, is constructed,
\* built on one platform and its fragment executed, once or more, then built
\* and executed once more, as test_qrbs does with its two platforms.  The
\* circuit of the tree of the test (17 qubits, 256 basis states) lies beyond
\* the bounds of Execute: the tree is built on both platforms.
NextRun ==
    \/ NewFact(RunCertainties, MaxRunNodes, MaxRunNodes, TRUE)
    \/ NewNot(RunCertainties, MaxRunNodes, MaxRunNodes, TRUE)
    \/ NewAnd(RunCertainties, MaxRunNodes, MaxRunNodes, TRUE)
    \/ NewOr(RunCertainties, MaxRunNodes, MaxRunNodes, TRUE)
    \/ NewTestTree
    \/ Build
    \/ Rebuild
    \/ Execute(MaxExecutes, MaxRunNodes)

SpecRun == Init /\ [][NextRun]_vars

(***************************************************************************)
(* What the properties are stated with.                                    *)
(***************************************************************************)
\* The tree the caller built.
Root == stack[1]

IsBuilt == phase = "built" /\ frag.raised = ""
IsExecuted == phase = "executed"

\* The width of a fragment as the specification's recursion gives it.
RECURSIVE TreeWidth(_)
TreeWidth(node) ==
    CASE node.kind = "Fact" -> 1
      [] node.kind = "Not"  -> TreeWidth(node.child) + 2
      [] OTHER -> TreeWidth(node.left_child) + TreeWidth(node.right_child) + 3

\* No two nodes of the tree carry the same tag.
DistinctTags(node) == Cardinality(TagsOf(node)) = Size(node)

\* The nodes that are the direct child of a NotOperator.
NotChildren(node) == {n.child : n \in {m \in NodesOf(node) : m.kind = "Not"}}

IsBinary(node) == node.kind \in {"And", "Or"}

\* Number of gates of the fragment of a node.
RECURSIVE GateCount(_)
GateCount(node) ==
    CASE node.kind = "Fact" -> 1
      [] node.kind = "Not"  -> GateCount(node.child) + 3
      [] node.kind = "And"  -> GateCount(node.left_child) + GateCount(node.right_child) + 3
      [] OTHER -> GateCount(node.left_child) + GateCount(node.right_child) + 5

\* C1: after a build, on either backend, every value of the tag map is an
\* index i with 0 <= i < width of the returned circuit.
C1_TagIndexInRange ==
    IsBuilt =>
        \A i \in 1..Len(frag.tags) :
            /\ frag.tags[i].v \in Int
            /\ 0 <= frag.tags[i].v
            /\ frag.tags[i].v < Width(frag, platform)

\* A five-node tree whose right child is a binary operator was built: its
\* inner tags were shifted by the left width.
C1_Witness ==
    /\ IsBuilt
    /\ IsBinary(Root) /\ IsBinary(Root.right_child)
    /\ Len(frag.tags) = 5

\* C2: for a tree with pairwise distinct tags, the keys of the tag map are
\* the tags of all nodes except the direct children of a NotOperator.
C2_LiveTags ==
    (IsBuilt /\ DistinctTags(Root)) =>
        /\ DictKeys(frag.tags) = {n.tag : n \in NodesOf(Root) \ NotChildren(Root)}
        /\ Len(frag.tags) = Cardinality(NodesOf(Root) \ NotChildren(Root))

\* A binary operator over two NOTs, all tags distinct, was built: the tag
\* of the fact under the left NOT is gone, the left NOT's tag is there.
C2_Witness ==
    /\ IsBuilt /\ DistinctTags(Root)
    /\ IsBinary(Root)
    /\ Root.left_child.kind = "Not"
    /\ Root.left_child.child.kind = "Fact"
    /\ Root.right_child.kind = "Not"
    /\ ~DictHas(frag.tags, Root.left_child.child.tag)
    /\ DictHas(frag.tags, Root.left_child.tag)

\* C3: the width of the fragment of every node follows Fact -> 1,
\* NOT -> child + 2, AND/OR -> left + right + 3 on both backends; on Cirq the
\* qubits touched by an operation are all the qubits of the register.
C3_WidthRecursion ==
    IsBuilt =>
        \A n \in NodesOf(Root) :
            LET f == Accept(n, platform)
            IN /\ Width(f, platform) = TreeWidth(n)
               /\ platform = "Cirq" =>
                    AllQubits(f.built_circuit) = 0..(TreeWidth(n) - 1)

\* A Cirq fragment of a NOT over a binary operator was built (width 7).
C3_Witness ==
    /\ IsBuilt /\ platform = "Cirq"
    /\ Root.kind = "Not" /\ IsBinary(Root.child)
    /\ Width(frag, platform) = 7

\* C4: in the fragment of every node, tags or not repeated, the node's own
\* tag maps to the last qubit; the first Toffoli of AND/OR is controlled by
\* the two children's output qubits and the X of NOT flips the child's.
C4_OwnTagLast ==
    IsBuilt =>
        \A n \in NodesOf(Root) :
            LET f == Accept(n, platform)
                g == GatesOf(f, platform)
            IN /\ DictHas(f.tags, n.tag)
               /\ DictGet(f.tags, n.tag) = Width(f, platform) - 1
               /\ n.kind = "Not" =>
                    LET c == Accept(n.child, platform)
                    IN g[GateCount(n.child) + 1].qubits
                         = <<DictGet(c.tags, n.child.tag)>>
               /\ IsBinary(n) =>
                    LET l == Accept(n.left_child, platform)
                        r == Accept(n.right_child, platform)
                        t == g[GateCount(n.left_child) + GateCount(n.right_child) + 1]
                    IN /\ t.qubits[1] = DictGet(l.tags, n.left_child.tag)
                       /\ t.qubits[2] = Width(l, platform)
                                          + DictGet(r.tags, n.right_child.tag)

\* A binary operator that carries the tag of its left child, and whose
\* children carry the same tag, was built.
C4_Witness ==
    /\ IsBuilt
    /\ IsBinary(Root)
    /\ Root.tag = Root.left_child.tag
    /\ Root.right_child.tag = Root.left_child.tag
    /\ IsBinary(Root.left_child)

\* C5: a second, fresh build of the same tree, on the same or on the other
\* platform, gives the same width and the same tag map as the first.
C5_BuildDeterministic ==
    (IsBuilt /\ builds >= 2) =>
        /\ prev.tags = frag.tags
        /\ prev.width = Width(frag, platform)

\* A five-node tree with a binary right child was built on one platform and
\* then on the other.
C5_Witness ==
    /\ IsBuilt /\ builds = 2
    /\ prev.platform # platform
    /\ IsBinary(Root) /\ IsBinary(Root.right_child)
    /\ Len(frag.tags) = 5

\* The circuit of the tree as built, and the basis states a shot of it can
\* give: those of nonzero amplitude.
BuiltGates == GatesOf(Accept(Root, platform), platform)
BuiltWidth == Width(Accept(Root, platform), platform)
PossibleShots == StateVector(BuiltGates, BuiltWidth)

\* The output bit of a node's own fragment in a shot in which the M gates
\* of the root's circuit leave `choice`, for the left child of the root or
\* the child of a root NOT: its gates come first in the root's circuit, on
\* the same qubits.
OutputInShot(node, choice) ==
    LET f == Accept(node, platform)
        g == GatesOf(f, platform)
        w == Width(f, platform)
    IN Branch(g, w, SubSeq(choice, 1, NumM(g))).bits[w]

\* The probability that a shot of the fragment as built leaves qubit q
\* at 1.
ProbabilityOfOne(q) ==
    LET f == Accept(Root, platform)
    IN Probability(GatesOf(f, platform), Width(f, platform), platform, q)

\* The number of shots of the run with qubit q at 1.
ObservedOnes(q) == SumCount({h \in shots : h.bits[q + 1] = 1})

\* C6: in every shot the circuit of an AND over children of widths L and R
\* can give (every basis state of nonzero amplitude), qubit L+R+2 is 1
\* exactly when qubits L-1, L+R-1 and L+R+1 are all 1, and qubit L-1 holds
\* the output of the left child; for an AND of two Facts the output
\* probability is sin^2(c3 pi/2) sin^2(c1 pi/2) sin^2(c2 pi/2).
C6_AndOutput ==
    /\ (IsBuilt /\ Root.kind = "And") =>
         LET L == Width(Accept(Root.left_child, platform), platform)
             R == Width(Accept(Root.right_child, platform), platform)
         IN /\ BuiltWidth = L + R + 3
            /\ \A h \in PossibleShots :
                 /\ h.bits[L + R + 2 + 1] = 1
                      <=> /\ h.bits[L - 1 + 1] = 1
                          /\ h.bits[L + R - 1 + 1] = 1
                          /\ h.bits[L + R + 1 + 1] = 1
                 /\ h.bits[L - 1 + 1] = OutputInShot(Root.left_child, h.choice)
    /\ (IsBuilt /\ Root.kind = "And" /\ Root.left_child.kind = "Fact"
            /\ Root.right_child.kind = "Fact") =>
         100 * 100 * 100 * ProbabilityOfOne(4).num
           = ProbabilityOfOne(4).den * Root.certainty
               * Root.left_child.certainty * Root.right_child.certainty

\* An AND whose left child is a NOT (L = 3) was built on Cirq, with all
\* four certainties 0.5: its shots can give 16 basis states, the output 1
\* in some and 0 in others.
C6_Witness ==
    /\ IsBuilt /\ platform = "Cirq"
    /\ Root.kind = "And" /\ Root.left_child.kind = "Not"
    /\ Cardinality(PossibleShots) = 16
    /\ \E h \in PossibleShots : h.bits[3 + 1 + 2 + 1] = 1
    /\ \E h \in PossibleShots : h.bits[3 + 1 + 2 + 1] = 0

\* C7: in every shot the circuit of an OR over children of widths L and R
\* can give (every basis state of nonzero amplitude) the ancilla
\* L+R holds a OR b of the child output qubits a = L-1 and b = L+R-1, and
\* qubit L+R+2 is 1 exactly when the ancilla and qubit L+R+1 are 1; for an
\* OR of two Facts the output probability is
\* sin^2(c3 pi/2) (p1 + p2 - p1 p2).
C7_OrOutput ==
    /\ (IsBuilt /\ Root.kind = "Or") =>
         LET L == Width(Accept(Root.left_child, platform), platform)
             R == Width(Accept(Root.right_child, platform), platform)
         IN \A h \in PossibleShots :
              LET a == h.bits[L - 1 + 1]
                  b == h.bits[L + R - 1 + 1]
              IN /\ h.bits[L + R + 1] = a + b - a * b
                 /\ h.bits[L + R + 1] = (((a * b) + a + b) % 2)
                 /\ h.bits[L + R + 2 + 1] = 1
                      <=> (h.bits[L + R + 1] = 1 /\ h.bits[L + R + 1 + 1] = 1)
                 /\ a = OutputInShot(Root.left_child, h.choice)
    /\ (IsBuilt /\ Root.kind = "Or" /\ Root.left_child.kind = "Fact"
            /\ Root.right_child.kind = "Fact") =>
         LET c1 == Root.left_child.certainty
             c2 == Root.right_child.certainty
         IN 100 * 100 * 100 * ProbabilityOfOne(4).num
              = ProbabilityOfOne(4).den * Root.certainty
                  * (100 * c1 + 100 * c2 - c1 * c2)

\* An OR of two Facts was built on Qiskit and its shots can give all four
\* values of (a, b).
C7_Witness ==
    /\ IsBuilt /\ platform = "Qiskit" /\ Root.kind = "Or"
    /\ Root.left_child.kind = "Fact" /\ Root.right_child.kind = "Fact"
    /\ \A a \in {0, 1}, b \in {0, 1} :
         \E h \in PossibleShots : h.bits[1] = a /\ h.bits[2] = b

\* C8: in every shot the circuit of a NOT over a child of width w can give
\* (every basis state of nonzero amplitude) the last qubit is 1
\* exactly when the child's output bit is 0 and the NOT's certainty qubit w
\* is 1; for a NOT of a Fact the probability is
\* sin^2(c' pi/2) (1 - sin^2(c pi/2)).
C8_NotOutput ==
    /\ (IsBuilt /\ Root.kind = "Not") =>
         LET w == Width(Accept(Root.child, platform), platform)
         IN \A h \in PossibleShots :
              h.bits[w + 1 + 1] = 1
                <=> (OutputInShot(Root.child, h.choice) = 0 /\ h.bits[w + 1] = 1)
    /\ (IsBuilt /\ Root.kind = "Not" /\ Root.child.kind = "Fact") =>
         100 * 100 * ProbabilityOfOne(2).num
           = ProbabilityOfOne(2).den * Root.certainty
               * (100 - Root.child.certainty)

\* A NOT over a NOT of a Fact, all certainties 0.5, was built on Qiskit:
\* its shots can give 8 basis states, the output 1 in some, and 0 in others
\* with the certainty qubit at 1.
C8_Witness ==
    /\ IsBuilt /\ platform = "Qiskit"
    /\ Root.kind = "Not" /\ Root.child.kind = "Not"
    /\ Cardinality(PossibleShots) = 8
    /\ \E h \in PossibleShots : h.bits[3 + 1 + 1] = 1
    /\ \E h \in PossibleShots : h.bits[3 + 1 + 1] = 0 /\ h.bits[3 + 1] = 1

\* C9: a single Fact of certainty c gives outcome 1 with probability
\* sin^2(c pi/2) on both backends: 0, 1/2 and 1 for c = 0, 0.5 and 1; with
\* c = 0 and c = 1 every run measures exactly 0 and 1, with c = 0.5 a run
\* measures the share of its shots that gave 1, whatever that share is.
C9_FactProbability ==
    (phase # "construct" /\ Root.kind = "Fact") =>
        /\ 100 * ProbabilityOfOne(0).num
             = ProbabilityOfOne(0).den * Root.certainty
        /\ IsExecuted =>
             /\ Len(values) = 1
             /\ values[1].tag = Root.tag
             /\ values[1].measure.num = ObservedOnes(0)
             /\ Root.certainty = 0 => values[1].measure.num = 0
             /\ Root.certainty = 100 =>
                    values[1].measure.num = values[1].measure.den

\* A Fact of certainty 0.5 was executed on Cirq; 524 of the 1024 shots
\* gave 1 and 500 gave 0.
C9_Witness ==
    /\ IsExecuted /\ Root.kind = "Fact" /\ Root.certainty = 50
    /\ platform = "Cirq"
    /\ Cardinality(shots) = 2
    /\ values[1].measure.num = 524

LastOrder == frag.built_circuit.ops[Len(frag.built_circuit.ops)].qubits

\* C11: for a tag mapped to qubit index i the executor reads the measured
\* bit of qubit i: on Qiskit place i of every reversed count key is the bit
\* of qubit i, on Cirq, in whatever order the qubits were passed to measure,
\* the column found through the numbers parsed from the key is the column
\* of qubit i; so every tag's value counts the shots of its own qubit.
C11_BitOrder ==
    IsExecuted =>
        /\ platform = "Qiskit" =>
             \A it \in QiskitCounts(frag.built_circuit, shots) :
                \E h \in shots :
                   /\ it.v = h.count
                   /\ \A q \in 0..(Width(frag, platform) - 1) :
                        it.k[q + 1] = BitChar(h.bits[q + 1])
        /\ platform = "Cirq" =>
             /\ LastOrder \in MeasureOrders(Width(frag, platform))
             /\ CirqKeys(LastOrder) = LastOrder
             /\ \A i \in 1..Len(frag.tags) :
                  LastOrder[IndexOf(CirqKeys(LastOrder), frag.tags[i].v) + 1]
                    = frag.tags[i].v
        /\ platform = "Cirq" =>
             CirqExecute(frag, shots, PyRange(0, Width(frag, platform))) = values
        /\ \A i \in 1..Len(frag.tags) :
             values[i].measure.num = ObservedOnes(frag.tags[i].v)

\* A fragment was executed on Cirq with the qubits measured in an order
\* that is not the ascending one, and the tags of qubits 0 and 1 got
\* different values.
C11_Witness ==
    /\ IsExecuted /\ platform = "Cirq"
    /\ LastOrder # PyRange(0, Width(frag, platform))
    /\ Len(frag.tags) >= 2
    /\ frag.tags[1].v = 0 /\ frag.tags[2].v = 1
    /\ values[1].measure.num # values[2].measure.num

\* The tags of Result.values.
ResultTags == {values[i].tag : i \in 1..Len(values)}

NotNodes == {n \in NodesOf(Root) : n.kind = "Not"}

\* The three gates build_not adds after the child's, as <<X, M, Toffoli>>.
NotGates(n) ==
    LET g == GatesOf(Accept(n, platform), platform)
    IN SubSeq(g, Len(g) - 2, Len(g))

IsX(g) == g.name \in {"x", "X"}
IsToffoli(g) == g.name \in {"ccx", "CCNOT"}

\* C13 as amended: build_not, for a child fragment of width w, allocates a
\* register of width w + 2, keeps the child's gates on qubits 0..w-1 and
\* applies X on qubit w - 1 (the child's output qubit), the Certainty Gate
\* on qubit w, and a Toffoli with controls (w - 1, w) and target the last
\* qubit w + 1, on both backends.
C13_NotGates ==
    IsBuilt =>
        \A n \in NotNodes :
            LET c  == Accept(n.child, platform)
                f  == Accept(n, platform)
                w  == Width(c, platform)
                cg == GatesOf(c, platform)
                g  == GatesOf(f, platform)
                ng == SubSeq(g, Len(g) - 2, Len(g))
            IN /\ Width(f, platform) = w + 2
               /\ Len(g) = Len(cg) + 3
               /\ SubSeq(g, 1, Len(cg)) = cg
               /\ IsX(ng[1])
               /\ ng[1].qubits = <<w - 1>>
               /\ IsM(ng[2])
               /\ ng[2].qubits = <<w>>
               /\ ng[2].certainty = n.certainty
               /\ IsToffoli(ng[3])
               /\ ng[3].qubits = <<w - 1, w, w + 1>>

\* C13 as stated: X on qubit w, the Certainty Gate on qubit w + 1, and a
\* Toffoli with controls (w, w + 1) and target the last qubit w + 2 - 1.
C13_Original ==
    IsBuilt =>
        \A n \in NotNodes :
            LET w == Width(Accept(n.child, platform), platform)
            IN /\ Width(Accept(n, platform), platform) = w + 2
               /\ NotGates(n)[1].qubits = <<w>>
               /\ NotGates(n)[2].qubits = <<w + 1>>
               /\ NotGates(n)[3].qubits = <<w, w + 1, w + 2 - 1>>

\* A NOT over a NOT (w = 3) was built on Cirq.
C13_Witness ==
    /\ IsBuilt /\ platform = "Cirq"
    /\ Root.kind = "Not" /\ Root.child.kind = "Not"
    /\ NotGates(Root)[1].qubits = <<2>>
    /\ NotGates(Root)[3].qubits = <<2, 3, 4>>

\* The AND and OR nodes of the tree.
BinaryNodes == {n \in NodesOf(Root) : IsBinary(n)}

\* C14: in the fragment of an AND or OR over fragments of widths L and R,
\* apart from the operator's own tag (assigned last), the tag map holds the
\* tags of both children's maps: a tag of the left map only keeps its
\* index, a tag of the right map has its index + L, the left child's tag
\* is at L - 1 and the right child's at L + R - 1.  With disjoint maps the
\* two overwrites change nothing; a tag of both maps has the right map's
\* shifted index unless it is the left child's own tag (which is at L - 1,
\* or, when the right child carries it too, at L + R - 1).
C14_ShiftByOffset ==
    IsBuilt =>
        \A n \in BinaryNodes :
            LET l  == Accept(n.left_child, platform)
                r  == Accept(n.right_child, platform)
                f  == Accept(n, platform)
                L  == Width(l, platform)
                R  == Width(r, platform)
                lt == n.left_child.tag
                rt == n.right_child.tag
            IN /\ DictKeys(f.tags)
                    = DictKeys(l.tags) \cup DictKeys(r.tags) \cup {n.tag}
               /\ DictKeys(l.tags) \cap DictKeys(r.tags) = {} =>
                    /\ DictGet(l.tags, lt) = L - 1
                    /\ DictGet(r.tags, rt) + L = L + R - 1
                    /\ \A t \in DictKeys(l.tags) \ {n.tag} :
                         DictGet(f.tags, t) = DictGet(l.tags, t)
                    /\ \A t \in DictKeys(r.tags) \ {n.tag} :
                         DictGet(f.tags, t) = DictGet(r.tags, t) + L
               /\ \A t \in DictKeys(f.tags) \ {n.tag} :
                    DictGet(f.tags, t) =
                       IF t = rt THEN L + R - 1
                       ELSE IF t = lt THEN L - 1
                       ELSE IF DictHas(r.tags, t) THEN DictGet(r.tags, t) + L
                       ELSE DictGet(l.tags, t)
               /\ \A t \in (DictKeys(l.tags) \cap DictKeys(r.tags)) \ {n.tag} :
                    t # lt => DictGet(f.tags, t) = DictGet(r.tags, t) + L

\* A binary operator over two binary operators (L = R = 5) was built, and a
\* tag that is neither child's own occurs in both children's maps: it has
\* the right map's shifted index, not the left map's.
C14_Witness ==
    /\ IsBuilt
    /\ IsBinary(Root) /\ IsBinary(Root.left_child) /\ IsBinary(Root.right_child)
    /\ \E t \in DictKeys(Accept(Root.left_child, platform).tags)
                 \cap DictKeys(Accept(Root.right_child, platform).tags) :
         /\ t \notin {Root.left_child.tag, Root.right_child.tag, Root.tag}
         /\ DictGet(frag.tags, t)
              = DictGet(Accept(Root.right_child, platform).tags, t) + 5
         /\ DictGet(frag.tags, t)
              # DictGet(Accept(Root.left_child, platform).tags, t)

\* The qubits of the fragment of a node, placed at offset off, that its
\* operators added for their own use: the certainty qubit of every NOT,
\* AND and OR, and the intermediate qubit of every AND and OR.
RECURSIVE Ancillas(_, _)
Ancillas(node, off) ==
    CASE node.kind = "Fact" -> {}
      [] node.kind = "Not" ->
           LET w == Width(Accept(node.child, platform), platform)
           IN Ancillas(node.child, off) \cup {off + w}
      [] OTHER ->
           LET L == Width(Accept(node.left_child, platform), platform)
               R == Width(Accept(node.right_child, platform), platform)
           IN Ancillas(node.left_child, off)
              \cup Ancillas(node.right_child, off + L)
              \cup {off + L + R, off + L + R + 1}

\* C15: the tag map of every built fragment is injective, and no tag maps
\* to the intermediate qubit of an AND or OR or to a certainty qubit of an
\* operator, also when tags are repeated in the tree.
C15_Injective ==
    IsBuilt =>
        /\ \A i, j \in 1..Len(frag.tags) :
             frag.tags[i].v = frag.tags[j].v => i = j
        /\ \A i \in 1..Len(frag.tags) :
             frag.tags[i].v \notin Ancillas(Root, 0)

\* A binary operator over two binary operators was built; a tag occurs in
\* both children's maps and the map still holds at least four tags.
C15_Witness ==
    /\ IsBuilt
    /\ IsBinary(Root)
    /\ IsBinary(Root.left_child) /\ IsBinary(Root.right_child)
    /\ DictKeys(Accept(Root.left_child, platform).tags)
         \cap DictKeys(Accept(Root.right_child, platform).tags) # {}
    /\ Len(frag.tags) >= 4
    /\ Cardinality({frag.tags[i].v : i \in 1..Len(frag.tags)}) = Len(frag.tags)

\* The qubit a gate changes: the last of its qubits (the others control).
Target(g) == g.qubits[Len(g.qubits)]

\* The qubits changed by the gates that the build of node n adds after the
\* gates of its children.
OwnTargets(n) ==
    LET g == GatesOf(Accept(n, platform), platform)
        k == IF n.kind = "Not"
             THEN Len(GatesOf(Accept(n.child, platform), platform))
             ELSE Len(GatesOf(Accept(n.left_child, platform), platform))
                  + Len(GatesOf(Accept(n.right_child, platform), platform))
    IN {Target(g[i]) : i \in (k + 1)..Len(g)}

\* The value a node computes in a shot in which the M gates leave ch: the
\* bit of its own M gate, and for an operator the operation on the values
\* of its children.  The M gates of the node's fragment are ch[m0], ...,
\* the children's first and the node's own last.
RECURSIVE NodeValue(_, _, _)
NodeValue(node, ch, m0) ==
    CASE node.kind = "Fact" -> ch[m0]
      [] node.kind = "Not" ->
           ch[m0 + Size(node.child)] * (1 - NodeValue(node.child, ch, m0))
      [] node.kind = "And" ->
           ch[m0 + Size(node.left_child) + Size(node.right_child)]
             * NodeValue(node.left_child, ch, m0)
             * NodeValue(node.right_child, ch, m0 + Size(node.left_child))
      [] OTHER ->
           LET a == NodeValue(node.left_child, ch, m0)
               b == NodeValue(node.right_child, ch, m0 + Size(node.left_child))
           IN ch[m0 + Size(node.left_child) + Size(node.right_child)]
                * (a + b - a * b)

\* The values of all the nodes of a tree in that shot, by tag.
RECURSIVE TagValues(_, _, _)
TagValues(node, ch, m0) ==
    {[tag |-> node.tag, val |-> NodeValue(node, ch, m0)]}
    \cup CASE node.kind = "Fact" -> {}
            [] node.kind = "Not" -> TagValues(node.child, ch, m0)
            [] OTHER -> TagValues(node.left_child, ch, m0)
                        \cup TagValues(node.right_child, ch,
                                       m0 + Size(node.left_child))

\* Every certainty of the tree is 0 or 1.
AllSure(node) == \A n \in NodesOf(node) : n.certainty \in {0, 100}

\* The bits the M gates leave when every certainty is 0 or 1, in the order
\* of the gates.
RECURSIVE SureChoice(_)
SureChoice(node) ==
    CASE node.kind = "Fact" -> <<node.certainty \div 100>>
      [] node.kind = "Not" ->
           SureChoice(node.child) \o <<node.certainty \div 100>>
      [] OTHER -> SureChoice(node.left_child) \o SureChoice(node.right_child)
                  \o <<node.certainty \div 100>>

\* C16: the gates an operator adds change no qubit of a tag that stays in
\* its tag map (but its own): AND and OR only control on the children's
\* output qubits, and the X of build_not acts on qubit w - 1, the qubit of
\* the tag build_not deletes.  So in every shot the built circuit can give
\* (every basis state of nonzero amplitude) the qubit of every live tag
\* holds the value its own node computed, which for certainties in {0, 1}
\* is the boolean value certainty AND op(children).
C16_LiveQubitsKept ==
    /\ IsBuilt =>
         \A n \in NodesOf(Root) \ {m \in NodesOf(Root) : m.kind = "Fact"} :
            LET f == Accept(n, platform)
            IN /\ \A i \in 1..Len(f.tags) :
                    f.tags[i].k # n.tag => f.tags[i].v \notin OwnTargets(n)
               /\ IsBinary(n) =>
                    LET L == Width(Accept(n.left_child, platform), platform)
                        R == Width(Accept(n.right_child, platform), platform)
                    IN /\ DictGet(f.tags, n.left_child.tag) = L - 1
                       /\ DictGet(f.tags, n.right_child.tag) = L + R - 1
                       /\ OwnTargets(n) = {L + R, L + R + 1, L + R + 2}
               /\ n.kind = "Not" =>
                    LET c == Accept(n.child, platform)
                        w == Width(c, platform)
                    IN /\ OwnTargets(n) = {w - 1, w, w + 1}
                       /\ DictGet(c.tags, n.child.tag) = w - 1
                       /\ ~DictHas(f.tags, n.child.tag)
    /\ IsBuilt =>
         \A h \in PossibleShots :
            /\ \A i \in 1..Len(frag.tags) :
                 [tag |-> frag.tags[i].k, val |-> h.bits[frag.tags[i].v + 1]]
                    \in TagValues(Root, h.choice, 1)
            /\ AllSure(Root) =>
                 \A i \in 1..Len(frag.tags) :
                    [tag |-> frag.tags[i].k, val |-> h.bits[frag.tags[i].v + 1]]
                       \in TagValues(Root, SureChoice(Root), 1)

\* An operator over a NOT and a Fact, all certainties 0 or 1, was built and
\* executed: the NOT's tag is live and its qubit holds 1 while the root's
\* holds 0.
C16_Witness ==
    /\ IsExecuted /\ AllSure(Root)
    /\ IsBinary(Root) /\ Root.left_child.kind = "Not"
    /\ shots \subseteq {Seen(h, QiskitShots) : h \in PossibleShots}
    /\ \E h \in PossibleShots :
         /\ h.bits[DictGet(frag.tags, Root.left_child.tag) + 1] = 1
         /\ h.bits[DictGet(frag.tags, Root.tag) + 1] = 0

\* The gate measures every qubit of the fragment once.
MeasuresAll(g) ==
    /\ g.name = "measure"
    /\ Len(g.qubits) = Width(frag, platform)
    /\ {g.qubits[j] : j \in 1..Len(g.qubits)} = 0..(Width(frag, platform) - 1)

\* C17: execute leaves the tag map of the fragment as it is and adds the
\* measurement to the fragment's own circuit: after k calls the circuit is
\* the circuit as built followed by k measurements of all the qubits (on
\* Qiskit each behind its barrier), so from the second call on execute
\* does not find the circuit as built.
C17_ExecuteInPlace ==
    (phase # "construct" /\ frag.raised = "") =>
        LET built == Accept(Root, platform)
            gates == GatesOf(built, platform)
            now   == GatesOf(frag, platform)
            added == SubSeq(now, Len(gates) + 1, Len(now))
        IN /\ frag.tags = built.tags
           /\ SubSeq(now, 1, Len(gates)) = gates
           /\ platform = "Qiskit" =>
                /\ Len(added) = 2 * executes
                /\ \A k \in 1..executes :
                     /\ added[2 * k - 1].name = "barrier"
                     /\ MeasuresAll(added[2 * k])
           /\ platform = "Cirq" =>
                /\ Len(added) = executes
                /\ \A k \in 1..executes : MeasuresAll(added[k])
           /\ executes >= 1 => now # gates
           /\ Width(frag, platform) = Width(built, platform)

\* execute was called twice on the same Qiskit fragment, built from a tree
\* of four nodes; the circuit carries two measurements of its seven qubits.
C17_Witness ==
    /\ phase \in {"executed", "raised"} /\ platform = "Qiskit"
    /\ executes = 2
    /\ Size(Root) = 4 /\ Width(frag, platform) = 7
    /\ NumCregs(frag.built_circuit) = 2

====
